---- MODULE Spec2Model ----
(***************************************************************************)
(* The client-side access-token store (class TokenStore) of the AuthKit    *)
(* TanStack Start SDK, with the browser pieces it talks to: the clock, the *)
(* timer table behind setTimeout/clearTimeout, document.cookie and the two *)
(* remote server functions getAccessTokenAction / refreshAccessTokenAction.*)
(* Time is in whole seconds (Math.floor(Date.now() / 1000)); timer delays  *)
(* are kept in milliseconds as the code computes them.  SpecHook drives    *)
(* the same store through one mounted useAccessToken hook.                 *)
(***************************************************************************)
EXTENDS Integers, Sequences, FiniteSets, TLC

VARIABLES
    now,                \* Math.floor(Date.now() / 1000)
    state,              \* TokenStore.state: [token, loading, error]
    listeners,          \* TokenStore.listeners.size (the callbacks are alike)
    refreshPromise,     \* TokenStore.refreshPromise: id of the async body, 0 = null
    refreshTimeout,     \* TokenStore.refreshTimeout: timer handle, 0 = undefined
    fastCookieConsumed, \* TokenStore.fastCookieConsumed
    timers,             \* the runtime's pending setTimeout entries
    cookie,             \* document.cookie entry 'workos-access-token'
    ops,                \* async bodies of _refreshToken suspended at an await
    issued,             \* number of tokens/requests the server has numbered
    ticks,              \* number of clock moves so far
    ev,                 \* what the last step did (observable outcome)
    fin, fout,          \* input/output of the pure-function specifications
    hook,               \* the mounted useAccessToken hook, if any
    adopted             \* how often a bootstrap-cookie token was adopted (up to 2)

vars == <<now, state, listeners, refreshPromise, refreshTimeout,
          fastCookieConsumed, timers, cookie, ops, issued, ticks, ev, fin, fout,
          hook, adopted>>

storeVars == <<now, state, listeners, refreshPromise, refreshTimeout,
               fastCookieConsumed, timers, cookie, ops, issued, ticks, ev,
               hook, adopted>>

----------------------------------------------------------------------------
(* Program constants                                                       *)

TOKEN_EXPIRY_BUFFER_SECONDS == 60
MIN_REFRESH_DELAY_SECONDS == 15
MAX_REFRESH_DELAY_SECONDS == 86400
RETRY_DELAY_SECONDS == 300
SHORT_LIFETIME_SECONDS == 300
SHORT_BUFFER_SECONDS == 30

(* Bounds of the model                                                     *)

MaxTokens == 2      \* tokens / remote requests the server numbers in a run
MaxTicks == 1       \* clock moves in a run
MaxListeners == 2   \* distinct subscriber callbacks
StartTime == 10000  \* the clock at construction

----------------------------------------------------------------------------
(* Values                                                                  *)

\* A payload field that is absent / not a number.
NoNum == 0 - 1

\* state.token === undefined
NoToken == [id |-> 0, kind |-> "none", exp |-> NoNum, iat |-> NoNum]

NoError == [isError |-> FALSE, msg |-> ""]

\* Values a remote call may reject with: an Error instance or a bare string.
Reasons == {[isError |-> TRUE, msg |-> "x"], [isError |-> FALSE, msg |-> "x"]}

\* Token strings the server can produce at time t under number n: a fresh
\* long-lived JWT, a long-lived JWT issued 3540 s ago with 60 s left, and an
\* opaque (non-JWT) string.
Mint(n, t) ==
    { [id |-> n, kind |-> "jwt", exp |-> t + 3600, iat |-> t],
      [id |-> n, kind |-> "jwt", exp |-> t + 60, iat |-> t - 3540],
      [id |-> n, kind |-> "opaque", exp |-> NoNum, iat |-> NoNum] }

\* Mutation of EmptyState: the loading flag survives.
EmptyStateStillLoading == [token |-> NoToken, loading |-> TRUE, error |-> NoError]

EmptyState == [token |-> NoToken, loading |-> FALSE, error |-> NoError]

NoTimers == {}

NoOp == [silent |-> FALSE, prev |-> NoToken, tok |-> NoToken, remote |-> <<>>,
         ticket |-> 0, by |-> "none"]

NoEv == [kind |-> "none", op |-> 0, ret |-> "none", val |-> NoToken,
         reason |-> NoError, started |-> <<>>, fast |-> FALSE, attached |-> FALSE,
         notifies |-> 0, cancelled |-> 0, settled |-> NoOp]

----------------------------------------------------------------------------
(* JWT decoder and expiry policy                                           *)

\* decodeJwt: a string that is not a three-part base64url JSON token makes it
\* throw; otherwise it returns the payload, with no signature check.
decodeJwt(token) ==
    IF token.kind = "jwt"
    THEN [threw |-> FALSE, exp |-> token.exp, iat |-> token.iat]
    ELSE [threw |-> TRUE, exp |-> NoNum, iat |-> NoNum]

NullTokenData == [isNull |-> TRUE, expiresAt |-> 0, isExpiring |-> FALSE,
                  timeUntilExpiry |-> 0]

\* payload.iat || now: undefined and 0 are both falsy.
IatOrNow(iat, t) == IF iat = NoNum \/ iat = 0 THEN t ELSE iat

bufferSecondsFor(totalTokenLifetime) ==
    IF totalTokenLifetime <= SHORT_LIFETIME_SECONDS
    THEN SHORT_BUFFER_SECONDS
    ELSE TOKEN_EXPIRY_BUFFER_SECONDS

\* Mutation of parseToken: the typeof payload.exp check is missing.
parseTokenNoExpCheck(token, t) ==
    IF token = NoToken THEN NullTokenData
    ELSE LET d == decodeJwt(token) IN
         IF d.threw THEN NullTokenData
         ELSE [isNull |-> FALSE,
               expiresAt |-> d.exp,
               isExpiring |-> d.exp < t + TOKEN_EXPIRY_BUFFER_SECONDS,
               timeUntilExpiry |-> d.exp - t]

\* TokenStore.parseToken, evaluated when the clock reads t.
parseToken(token, t) ==
    IF token = NoToken THEN NullTokenData
    ELSE LET d == decodeJwt(token) IN
         IF d.threw THEN NullTokenData
         ELSE IF d.exp = NoNum THEN NullTokenData
         ELSE LET timeUntilExpiry == d.exp - t
                  totalTokenLifetime == d.exp - IatOrNow(d.iat, t)
                  bufferSeconds == bufferSecondsFor(totalTokenLifetime)
              IN [isNull |-> FALSE,
                  expiresAt |-> d.exp,
                  isExpiring |-> d.exp < t + bufferSeconds,
                  timeUntilExpiry |-> timeUntilExpiry]

Min(a, b) == IF a < b THEN a ELSE b
Max(a, b) == IF a > b THEN a ELSE b

\* Mutation of getRefreshDelay: the 15 s floor is missing.
getRefreshDelayNoFloor(timeUntilExpiry) ==
    IF timeUntilExpiry <= TOKEN_EXPIRY_BUFFER_SECONDS THEN 0
    ELSE Min((timeUntilExpiry - TOKEN_EXPIRY_BUFFER_SECONDS) * 1000,
             MAX_REFRESH_DELAY_SECONDS * 1000)

\* TokenStore.getRefreshDelay: milliseconds.
getRefreshDelay(timeUntilExpiry) ==
    IF timeUntilExpiry <= TOKEN_EXPIRY_BUFFER_SECONDS THEN 0
    ELSE LET idealDelay == (timeUntilExpiry - TOKEN_EXPIRY_BUFFER_SECONDS) * 1000
         IN Min(Max(idealDelay, MIN_REFRESH_DELAY_SECONDS * 1000),
                MAX_REFRESH_DELAY_SECONDS * 1000)

----------------------------------------------------------------------------
(* Timers                                                                  *)

\* clearTimeout(h) on the runtime's table of pending timers.
clearTimeout(pending, h) == {x \in pending : x.id # h}

\* setTimeout: the new entry gets a handle no pending timer uses.
FreshHandle(pending) ==
    CHOOSE i \in 1..(Cardinality(pending) + 1) : \A x \in pending : x.id # i

\* Mutation of cancelPending: the previous timer is left running.
cancelPendingNever(pending, h) == pending

\* The cancellation scheduleRefresh performs first:
\* if (this.refreshTimeout) { clearTimeout(this.refreshTimeout); ... }
cancelPending(pending, h) == IF h # 0 THEN clearTimeout(pending, h) ELSE pending

\* Mutation of scheduleDelay: the call without an argument gets no retry delay.
scheduleDelayNoRetry(known, timeUntilExpiry) == getRefreshDelay(timeUntilExpiry)

\* The delay scheduleRefresh arms the timer with.
scheduleDelay(known, timeUntilExpiry) ==
    IF ~known THEN RETRY_DELAY_SECONDS * 1000 ELSE getRefreshDelay(timeUntilExpiry)

\* TokenStore.scheduleRefresh(timeUntilExpiry?) at clock t; `known` is FALSE
\* for the call without an argument.  Returns the handle field and the table.
scheduleRefresh(pending, h, known, timeUntilExpiry, t) ==
    LET cleared == cancelPending(pending, h)
        delay == scheduleDelay(known, timeUntilExpiry)
        id == FreshHandle(cleared)
    IN [h |-> id,
        p |-> cleared \cup {[id |-> id, delay |-> delay, due |-> t + (delay \div 1000)]}]

\* Mutation of dropTimer: the handle is forgotten but the timer keeps running.
dropTimerHandleOnly(pending, h) == [h |-> 0, p |-> pending]

\* if (this.refreshTimeout) { clearTimeout(...); this.refreshTimeout = undefined }
\* as clearToken, reset and the last unsubscribe do it.
dropTimer(pending, h) == [h |-> 0, p |-> cancelPending(pending, h)]

\* How many pending timers a step took out of the table.
Cancelled(before, after) == Cardinality(before \ after)

\* scheduleRefresh only when the token parses:
\* const tokenData = this.parseToken(token); if (tokenData) scheduleRefresh(...)
scheduleIfParsed(pending, h, token, t) ==
    LET td == parseToken(token, t) IN
    IF td.isNull THEN [h |-> h, p |-> pending]
    ELSE scheduleRefresh(pending, h, TRUE, td.timeUntilExpiry, t)

----------------------------------------------------------------------------
(* Store operations                                                        *)

\* Mutation of toError: the rejection value is stored as it came.
toErrorRaw(reason) == reason

\* error instanceof Error ? error : new Error(String(error))
toError(reason) == [isError |-> TRUE, msg |-> reason.msg]

\* TokenStore.isRefreshing
isRefreshing == refreshPromise # 0

\* TokenStore.getSnapshot / getServerSnapshot
getSnapshot == state
getServerSnapshot == EmptyState

InFlight == DOMAIN ops

\* Mutation of Without: the settled body stays among the awaiting ones.
WithoutNothing(f, o) == f

\* The bodies still awaiting once body o has run to its end.
Without(f, o) == [x \in (DOMAIN f) \ {o} |-> f[x]]

\* Mutation of consumeFastCookie: a cookie equal to the cached token is left
\* in the jar.
consumeFastCookieKeepsEqual(consumed, ck, current) ==
    IF consumed THEN [token |-> NoToken, consumed |-> TRUE, cookie |-> ck]
    ELSE IF ck = NoToken THEN [token |-> NoToken, consumed |-> TRUE, cookie |-> ck]
    ELSE IF ck # current THEN [token |-> ck, consumed |-> TRUE, cookie |-> NoToken]
    ELSE [token |-> NoToken, consumed |-> TRUE, cookie |-> ck]

\* TokenStore.consumeFastCookie: the token to adopt (NoToken for none) and
\* what it leaves of the flag and of document.cookie.
consumeFastCookie(consumed, ck, current) ==
    IF consumed THEN [token |-> NoToken, consumed |-> TRUE, cookie |-> ck]
    ELSE IF ck = NoToken THEN [token |-> NoToken, consumed |-> TRUE, cookie |-> ck]
    ELSE [token |-> IF ck # current THEN ck ELSE NoToken,
          consumed |-> TRUE, cookie |-> NoToken]

\* Mutation of servedFromCache: an opaque token is not served from the cache.
servedFromCacheJwtOnly(token, t) ==
    LET td == parseToken(token, t) IN ~td.isNull /\ ~td.isExpiring

\* The cached-token tests of getAccessToken / getAccessTokenSilently:
\* (tokenData && !tokenData.isExpiring) || (this.state.token && !tokenData)
servedFromCache(token, t) ==
    LET td == parseToken(token, t) IN
    \/ (~td.isNull /\ ~td.isExpiring)
    \/ (token # NoToken /\ td.isNull)

\* if (this.refreshPromise) return this.refreshPromise: the in-flight body a
\* new _refreshToken call attaches to, 0 when it starts its own.
coalesceWith(promise) == promise

\* Mutation of firstRemote: every silent refresh starts with the cheap get.
firstRemoteSilentGet(silent, previousToken) ==
    IF ~silent THEN "refresh" ELSE "get"

\* Mutation of firstRemote: every body goes straight to the forced refresh.
firstRemoteAlwaysRefresh(silent, previousToken) == "refresh"

\* The remote operation the async body calls first.
firstRemote(silent, previousToken) ==
    IF ~silent THEN "refresh"
    ELSE IF previousToken = NoToken THEN "get" ELSE "refresh"

\* Mutation of startState: the start never raises the loading flag.
startStateNeverLoading(st, silent) == [st EXCEPT !.error = NoError]

\* The setState at the start of _refreshToken.
startState(st, silent) ==
    IF ~silent THEN [st EXCEPT !.loading = TRUE, !.error = NoError]
    ELSE [st EXCEPT !.error = NoError]

\* TokenStore._refreshToken(silent), called by a caller of kind k, up to the
\* first await of its async body, from snapshot st and timer handle h (the
\* values the fields hold when the call is made).  The body records the store
\* method that started it ("by"; the timer callback, the hook's effect and its
\* wake listeners call getAccessTokenSilently).
RefreshFrom(silent, k, pending, st, h) ==
    LET target == coalesceWith(refreshPromise) IN
    IF target # 0
    THEN /\ ev' = [NoEv EXCEPT !.kind = k, !.op = target, !.ret = "pending",
                               !.attached = TRUE]
         /\ timers' = pending
         /\ state' = st
         /\ refreshTimeout' = h
         /\ UNCHANGED <<refreshPromise, ops, issued>>
    ELSE /\ issued < MaxTokens
         /\ LET id == issued + 1
                first == firstRemote(silent, st.token)
            IN /\ issued' = id
               /\ state' = startState(st, silent)
               /\ ops' = ops @@ (id :> [silent |-> silent, prev |-> st.token,
                                        tok |-> NoToken, remote |-> <<first>>,
                                        ticket |-> id,
                                        by |-> IF k \in {"t", "e", "w"} THEN "s"
                                               ELSE k])
               /\ refreshPromise' = id
               /\ ev' = [NoEv EXCEPT !.kind = k, !.op = id, !.ret = "pending",
                                     !.started = <<first>>, !.notifies = 1]
         /\ timers' = pending
         /\ refreshTimeout' = h

RefreshCore(silent, k, pending) ==
    RefreshFrom(silent, k, pending, state, refreshTimeout)

\* getAccessToken (k = "g") and getAccessTokenSilently (k = "s"; "t" called by
\* the timer callback, "e" by the hook's effect, "w" by a wake listener), from
\* snapshot st and timer handle h; `pending` is the timer table the call finds.
GetFrom(k, pending, st, h) ==
    LET c == consumeFastCookie(fastCookieConsumed, cookie, st.token) IN
    /\ fastCookieConsumed' = c.consumed
    /\ cookie' = c.cookie
    /\ adopted' = IF c.token # NoToken /\ adopted < 2 THEN adopted + 1 ELSE adopted
    /\ IF c.token # NoToken
       THEN LET tm == IF k = "g" THEN [h |-> h, p |-> pending]
                      ELSE scheduleIfParsed(pending, h, c.token, now)
            IN /\ state' = [token |-> c.token, loading |-> FALSE, error |-> NoError]
               /\ refreshTimeout' = tm.h
               /\ timers' = tm.p
               /\ ev' = [NoEv EXCEPT !.kind = k, !.ret = "value", !.val = c.token,
                                     !.fast = TRUE, !.notifies = 1,
                                     !.cancelled = Cancelled(pending, tm.p)]
               /\ UNCHANGED <<refreshPromise, ops, issued>>
       ELSE IF servedFromCache(st.token, now)
       THEN /\ ev' = [NoEv EXCEPT !.kind = k, !.ret = "value", !.val = st.token]
            /\ timers' = pending
            /\ state' = st
            /\ refreshTimeout' = h
            /\ UNCHANGED <<refreshPromise, ops, issued>>
       ELSE RefreshFrom(TRUE, k, pending, st, h)

GetCore(k, pending) == GetFrom(k, pending, state, refreshTimeout)

GetAccessToken ==
    /\ GetCore("g", timers)
    /\ UNCHANGED <<now, listeners, ticks, fin, fout, hook>>

GetAccessTokenSilently ==
    /\ GetCore("s", timers)
    /\ UNCHANGED <<now, listeners, ticks, fin, fout, hook>>

RefreshToken ==
    /\ RefreshCore(FALSE, "r", timers)
    /\ UNCHANGED <<now, listeners, fastCookieConsumed, cookie, ticks, fin,
                   fout, hook, adopted>>

\* The callback scheduleRefresh installed: a one-shot timer that has come due.
TimerFire ==
    \E x \in timers :
        /\ now >= x.due
        /\ GetCore("t", timers \ {x})
        /\ UNCHANGED <<now, listeners, ticks, fin, fout, hook>>

----------------------------------------------------------------------------
(* The async body of _refreshToken after an await                          *)

Last(q) == q[Len(q)]

\* The session's current token when it is about to expire: a long-lived JWT
\* issued 3541 s ago with 59 s left, which getAccessTokenAction returns as it is.
SessionToken(n, t) == [id |-> n, kind |-> "jwt", exp |-> t + 59, iat |-> t - 3541]

\* What a remote call of body o can resolve with when the clock reads t: a
\* token numbered by the request, nothing, or (a forced refresh only) the very
\* token the store already held; getAccessTokenAction does not force a
\* refresh, so it can also return the session's token close to its expiry.
Responses(o, t) ==
    Mint(ops[o].ticket, t) \cup {NoToken}
        \cup (IF Last(ops[o].remote) = "refresh" /\ ops[o].prev # NoToken
              THEN {ops[o].prev} ELSE {})
        \cup (IF Last(ops[o].remote) = "get"
              THEN {SessionToken(ops[o].ticket, t)} ELSE {})

\* Mutation of successState: the snapshot is replaced without the guard (and
\* so without the notification that goes with the guarded setState).
successStateUnguarded(st, token, previousToken, silent) ==
    [token |-> token, loading |-> FALSE, error |-> NoError]

\* The state the success path publishes: setState({token, loading: false,
\* error: null}) when (token !== previousToken || !silent), else no change.
successState(st, token, previousToken, silent) ==
    IF token # previousToken \/ ~silent
    THEN [token |-> token, loading |-> FALSE, error |-> NoError]
    ELSE st

\* Mutation of catchState: the failure also drops the cached token.
catchStateDropsToken(st, reason) ==
    [token |-> NoToken, loading |-> FALSE, error |-> toError(reason)]

\* Mutation of catchState: the failure leaves the loading flag as it was.
catchStateKeepsLoading(st, reason) == [st EXCEPT !.error = toError(reason)]

\* The state the catch block publishes.
catchState(st, reason) ==
    [st EXCEPT !.loading = FALSE, !.error = toError(reason)]

\* The value the finally block leaves in this.refreshPromise.
finallyPromise(promise, o) == 0

\* Lines 338-351 and the finally: publish, schedule, return, clear the handle.
Finish(o, token, st, n) ==
    LET op == ops[o]
        tm == scheduleIfParsed(timers, refreshTimeout, token, now)
        st2 == successState(st, token, op.prev, op.silent)
    IN /\ state' = st2
       /\ refreshTimeout' = tm.h
       /\ timers' = tm.p
       /\ refreshPromise' = finallyPromise(refreshPromise, o)
       /\ ops' = Without(ops, o)
       /\ ev' = [NoEv EXCEPT !.kind = "resolve", !.op = o, !.ret = "value",
                             !.val = token, !.settled = op,
                             !.cancelled = Cancelled(timers, tm.p),
                             !.notifies = n + (IF token # op.prev \/ ~op.silent
                                               THEN 1 ELSE 0)]
       /\ UNCHANGED issued

\* getAccessTokenAction has resolved with resp (silent, no previous token).
AfterGet(o, resp) ==
    LET op == ops[o]
        td == parseToken(resp, now)
        publish == resp # NoToken /\ resp # op.prev
        st == IF publish
              THEN [token |-> resp, loading |-> FALSE, error |-> NoError]
              ELSE state
        n == IF publish THEN 1 ELSE 0
    IN IF resp = NoToken \/ (~td.isNull /\ td.isExpiring)
       THEN /\ issued < MaxTokens
            /\ issued' = issued + 1
            /\ state' = st
            /\ ops' = [ops EXCEPT ![o].tok = resp,
                                  ![o].remote = Append(@, "refresh"),
                                  ![o].ticket = issued + 1]
            /\ ev' = [NoEv EXCEPT !.kind = "stage", !.op = o, !.val = resp,
                                  !.started = <<"refresh">>, !.notifies = n]
            /\ UNCHANGED <<refreshPromise, refreshTimeout, timers>>
       ELSE Finish(o, resp, st, n)

\* refreshAccessTokenAction has resolved with resp.
AfterRefresh(o, resp) ==
    LET op == ops[o]
        token == IF op.silent /\ op.prev = NoToken
                 THEN (IF resp # NoToken THEN resp ELSE op.tok)
                 ELSE resp
    IN Finish(o, token, state, 0)

RemoteResolve ==
    \E o \in InFlight : \E resp \in Responses(o, now) :
        /\ IF Last(ops[o].remote) = "get" THEN AfterGet(o, resp)
                                           ELSE AfterRefresh(o, resp)
        /\ UNCHANGED <<now, listeners, fastCookieConsumed, cookie, ticks, fin,
                       fout, hook, adopted>>

\* A remote call of body o has rejected: catch, then finally.
RemoteReject ==
    \E o \in InFlight : \E reason \in Reasons :
        LET tm == scheduleRefresh(timers, refreshTimeout, FALSE, 0, now) IN
        /\ state' = catchState(state, reason)
        /\ refreshTimeout' = tm.h
        /\ timers' = tm.p
        /\ refreshPromise' = finallyPromise(refreshPromise, o)
        /\ ops' = Without(ops, o)
        /\ ev' = [NoEv EXCEPT !.kind = "reject", !.op = o, !.ret = "rejected",
                              !.reason = reason, !.settled = ops[o], !.notifies = 1,
                              !.cancelled = Cancelled(timers, tm.p)]
        /\ UNCHANGED <<now, listeners, fastCookieConsumed, cookie, issued, ticks,
                       fin, fout, hook, adopted>>

----------------------------------------------------------------------------
(* clearToken, reset, subscribe                                            *)

ClearToken ==
    LET tm == dropTimer(timers, refreshTimeout) IN
    /\ state' = [token |-> NoToken, loading |-> FALSE, error |-> NoError]
    /\ refreshTimeout' = tm.h
    /\ timers' = tm.p
    /\ ev' = [NoEv EXCEPT !.kind = "clearToken", !.notifies = 1,
                          !.cancelled = Cancelled(timers, tm.p)]
    /\ UNCHANGED <<now, listeners, refreshPromise, fastCookieConsumed, cookie, ops,
                   issued, ticks, fin, fout, hook, adopted>>

Reset ==
    LET tm == dropTimer(timers, refreshTimeout) IN
    /\ state' = EmptyState
    /\ refreshPromise' = 0
    /\ fastCookieConsumed' = FALSE
    /\ refreshTimeout' = tm.h
    /\ timers' = tm.p
    /\ listeners' = 0
    /\ ev' = [NoEv EXCEPT !.kind = "reset", !.cancelled = Cancelled(timers, tm.p)]
    /\ UNCHANGED <<now, cookie, ops, issued, ticks, fin, fout, hook, adopted>>

\* subscribe(listener) with a callback not yet in the set.
Subscribe ==
    /\ listeners < MaxListeners
    /\ listeners' = listeners + 1
    /\ ev' = NoEv
    /\ UNCHANGED <<now, state, refreshPromise, refreshTimeout, fastCookieConsumed,
                   timers, cookie, ops, issued, ticks, fin, fout, hook, adopted>>

\* Mutation of unsubscribeTimer: every unsubscribe tears the timer down.
unsubscribeTimerAlways(left, pending, h) == dropTimer(pending, h)

\* The timer handling of the unsubscribe closure, given the listeners left.
unsubscribeTimer(left, pending, h) ==
    IF left = 0 /\ h # 0 THEN dropTimer(pending, h) ELSE [h |-> h, p |-> pending]

\* The closure subscribe returned, called by a subscribed callback.
Unsubscribe ==
    /\ listeners > 0
    /\ LET left == listeners - 1
           tm == unsubscribeTimer(left, timers, refreshTimeout)
       IN /\ listeners' = left
          /\ refreshTimeout' = tm.h
          /\ timers' = tm.p
          /\ ev' = [NoEv EXCEPT !.kind = "unsubscribe",
                                !.cancelled = Cancelled(timers, tm.p)]
          /\ UNCHANGED <<now, state, refreshPromise, fastCookieConsumed, cookie, ops,
                         issued, ticks, fin, fout, hook, adopted>>

----------------------------------------------------------------------------
(* Environment: the server's cookie and the clock                          *)

\* A server response sets the bootstrap cookie: to a token it numbers now, or
\* (while the store has yet to read the jar) again to the session's token the
\* client already holds.
SetCookie ==
    /\ \/ /\ issued < MaxTokens
          /\ \E tok \in Mint(issued + 1, now) : cookie' = tok
          /\ issued' = issued + 1
       \/ /\ state.token # NoToken
          /\ ~fastCookieConsumed
          /\ cookie' = state.token
          /\ UNCHANGED issued
    /\ ev' = NoEv
    /\ UNCHANGED <<now, state, listeners, refreshPromise, refreshTimeout,
                   fastCookieConsumed, timers, ops, ticks, fin, fout, hook, adopted>>

\* One second passes.
Tick ==
    /\ ticks < MaxTicks
    /\ now' = now + 1
    /\ ticks' = ticks + 1
    /\ ev' = NoEv
    /\ UNCHANGED <<state, listeners, refreshPromise, refreshTimeout,
                   fastCookieConsumed, timers, cookie, ops, issued, fin, fout,
                   hook, adopted>>

\* Time passes until a pending timer comes due.
AdvanceToTimer ==
    /\ ticks < MaxTicks
    /\ \E x \in timers : x.due > now /\ now' = x.due
    /\ ticks' = ticks + 1
    /\ ev' = NoEv
    /\ UNCHANGED <<state, listeners, refreshPromise, refreshTimeout,
                   fastCookieConsumed, timers, cookie, ops, issued, fin, fout,
                   hook, adopted>>

----------------------------------------------------------------------------
(* Construction and the specification                                      *)

\* No useAccessToken hook is mounted.
NoHook == [mounted |-> FALSE, user |-> 0, session |-> 0, awaiting |-> 0,
           cleared |-> FALSE]

\* Mutation of getInitialTokenFromCookie: the cookie is read but not deleted.
getInitialTokenFromCookieKeeps(ck) == [token |-> ck, cookie |-> ck]

\* TokenStore.getInitialTokenFromCookie on a jar holding ck: the token it
\* returns and what it leaves in the jar.
getInitialTokenFromCookie(ck) == [token |-> ck, cookie |-> NoToken]

\* new TokenStore() in a page whose bootstrap cookie holds ck (NoToken: none).
Constructed(ck) ==
    LET read == getInitialTokenFromCookie(ck)
        initialToken == read.token
        tm == IF initialToken # NoToken
              THEN scheduleIfParsed(NoTimers, 0, initialToken, StartTime)
              ELSE [h |-> 0, p |-> NoTimers]
    IN /\ state = [token |-> initialToken, loading |-> FALSE, error |-> NoError]
       /\ fastCookieConsumed = (initialToken # NoToken)
       /\ refreshTimeout = tm.h
       /\ timers = tm.p
       /\ cookie = read.cookie
       /\ listeners = 0
       /\ refreshPromise = 0
       /\ ops = <<>>
       /\ adopted = IF initialToken # NoToken THEN 1 ELSE 0
       /\ ev = [NoEv EXCEPT !.kind = "construct", !.val = ck,
                            !.fast = (initialToken # NoToken)]

Init ==
    /\ now = StartTime
    /\ \E n \in 0..1 :
          /\ issued = n
          /\ \E ck \in (IF n = 0 THEN {NoToken} ELSE Mint(1, StartTime)) :
                Constructed(ck)
    /\ ticks = 0
    /\ hook = NoHook
    /\ fin = 0
    /\ fout = 0

Next ==
    \/ GetAccessToken
    \/ GetAccessTokenSilently
    \/ RefreshToken
    \/ TimerFire
    \/ RemoteResolve
    \/ RemoteReject
    \/ ClearToken
    \/ Reset
    \/ Subscribe
    \/ Unsubscribe
    \/ SetCookie
    \/ Tick
    \/ AdvanceToTimer

Spec == Init /\ [][Next]_vars

TypeOK ==
    /\ refreshPromise \in InFlight \cup {0}
    /\ \A x \in timers : x.id > 0

----------------------------------------------------------------------------
(* The useAccessToken hook: one mounted component driving the store        *)

\* What useAuth() can report: no user, user 1 in session 1 or 2, user 2 in
\* session 3 (0 stands for undefined).
Identities ==
    { [user |-> 0, session |-> 0], [user |-> 1, session |-> 1],
      [user |-> 1, session |-> 2], [user |-> 2, session |-> 3] }

\* Mutation of identityChanged: only a change of user counts.
identityChangedUserOnly(prevUserId, prevSession, userId, sessionId) ==
    prevUserId # 0 /\ prevUserId # userId

\* sessionChanged || userChanged, from prevSessionRef / prevUserIdRef.
identityChanged(prevUserId, prevSession, userId, sessionId) ==
    \/ (prevSession # 0 /\ prevSession # sessionId)
    \/ (prevUserId # 0 /\ prevUserId # userId)

\* Mutation of hookDelegates: the callbacks reach the store without a user.
hookDelegatesAlways(user) == TRUE

\* The guard of the hook's getAccessToken / refresh: userRef.current is set.
hookDelegates(user) == user # 0

\* willActuallyFetch of the identity effect.
willActuallyFetch(token, t) ==
    \/ token = NoToken
    \/ LET td == parseToken(token, t) IN ~td.isNull /\ td.isExpiring

\* Mutation of isInitialTokenLoading: no .finally() resets the flag.
isInitialTokenLoadingNoFinally == hook.awaiting # 0

\* isInitialTokenLoading: set by an effect run that will fetch, unset when the
\* promise that run waits on settles (hook.awaiting names its async body).
isInitialTokenLoading == hook.awaiting # 0 /\ hook.awaiting \in InFlight

\* The identity effect for the identity id, with the refs holding prevUserId
\* and prevSession: from `if (!user)` to the getAccessTokenSilently() call.
IdentityEffect(id, prevUserId, prevSession) ==
    IF id.user = 0
    THEN LET clear == prevUserId # 0
             tm == IF clear THEN dropTimer(timers, refreshTimeout)
                   ELSE [h |-> refreshTimeout, p |-> timers]
         IN /\ state' = IF clear
                        THEN [token |-> NoToken, loading |-> FALSE, error |-> NoError]
                        ELSE state
            /\ refreshTimeout' = tm.h
            /\ timers' = tm.p
            /\ ev' = [NoEv EXCEPT !.kind = "e", !.ret = "value",
                                  !.notifies = IF clear THEN 1 ELSE 0,
                                  !.cancelled = Cancelled(timers, tm.p)]
            /\ hook' = [mounted |-> TRUE, user |-> 0, session |-> 0,
                        awaiting |-> 0, cleared |-> clear]
            /\ UNCHANGED <<refreshPromise, fastCookieConsumed, cookie, ops, issued,
                           adopted>>
    ELSE LET clear == identityChanged(prevUserId, prevSession, id.user, id.session)
             tm == IF clear THEN dropTimer(timers, refreshTimeout)
                   ELSE [h |-> refreshTimeout, p |-> timers]
             st == IF clear
                   THEN [token |-> NoToken, loading |-> FALSE, error |-> NoError]
                   ELSE state
             fetch == willActuallyFetch(st.token, now)
         IN /\ GetFrom("e", tm.p, st, tm.h)
            /\ hook' = [mounted |-> TRUE, user |-> id.user, session |-> id.session,
                        awaiting |-> IF fetch
                                     THEN (IF ev'.ret = "pending" THEN ev'.op ELSE 0)
                                     ELSE hook.awaiting,
                        cleared |-> clear]

\* The component mounts: useSyncExternalStore subscribes, the refs start at
\* the first render's identity, the effects run.
HookMount ==
    /\ ~hook.mounted
    /\ \E id \in Identities : IdentityEffect(id, id.user, id.session)
    /\ listeners' = listeners + 1
    /\ UNCHANGED <<now, ticks, fin, fout>>

\* useAuth() reports an identity (a new one, or the same one in a new user
\* object): the component renders and the identity effect runs again.
HookIdentity ==
    /\ hook.mounted
    /\ \E id \in Identities : IdentityEffect(id, hook.user, hook.session)
    /\ UNCHANGED <<now, listeners, ticks, fin, fout>>

\* A wake event (visibilitychange, focus, online, pageshow) with a user.
HookWake ==
    /\ hook.mounted
    /\ hook.user # 0
    /\ GetFrom("w", timers, state, refreshTimeout)
    /\ UNCHANGED <<now, listeners, ticks, fin, fout, hook>>

\* The hook's getAccessToken callback.
HookGetAccessToken ==
    /\ hook.mounted
    /\ IF hookDelegates(hook.user)
       THEN GetFrom("g", timers, state, refreshTimeout)
       ELSE /\ ev' = [NoEv EXCEPT !.kind = "g", !.ret = "value"]
            /\ UNCHANGED <<state, refreshPromise, refreshTimeout, fastCookieConsumed,
                           timers, cookie, ops, issued, adopted>>
    /\ UNCHANGED <<now, listeners, ticks, fin, fout, hook>>

\* The hook's refresh callback.
HookRefresh ==
    /\ hook.mounted
    /\ IF hookDelegates(hook.user)
       THEN RefreshFrom(FALSE, "r", timers, state, refreshTimeout)
       ELSE /\ ev' = [NoEv EXCEPT !.kind = "r", !.ret = "value"]
            /\ UNCHANGED <<state, refreshPromise, refreshTimeout, timers, ops,
                           issued>>
    /\ UNCHANGED <<now, listeners, fastCookieConsumed, cookie, ticks, fin, fout, hook,
                   adopted>>

\* The component unmounts: useSyncExternalStore unsubscribes, the wake
\* listeners are removed.
HookUnmount ==
    /\ hook.mounted
    /\ LET left == listeners - 1
           tm == unsubscribeTimer(left, timers, refreshTimeout)
       IN /\ listeners' = left
          /\ refreshTimeout' = tm.h
          /\ timers' = tm.p
          /\ ev' = [NoEv EXCEPT !.kind = "unsubscribe",
                                !.cancelled = Cancelled(timers, tm.p)]
    /\ hook' = NoHook
    /\ UNCHANGED <<now, state, refreshPromise, fastCookieConsumed, cookie, ops,
                   issued, ticks, fin, fout, adopted>>

\* The store driven through the hook only.
NextHook ==
    \/ HookMount
    \/ HookIdentity
    \/ HookWake
    \/ HookGetAccessToken
    \/ HookRefresh
    \/ HookUnmount
    \/ TimerFire
    \/ RemoteResolve
    \/ RemoteReject
    \/ SetCookie
    \/ Tick
    \/ AdvanceToTimer

SpecHook == Init /\ [][NextHook]_vars

----------------------------------------------------------------------------
(* The pure functions on their own: parseToken and getRefreshDelay applied *)
(* to inputs drawn from bounded sets                                       *)

MaxExpOffset == 65      \* exp ranges over now-5 .. now+MaxExpOffset, and beyond
MaxDelayInput == 200    \* timeUntilExpiry ranges over -10 .. MaxDelayInput, and beyond

ExpOffsets == ((0 - 5)..MaxExpOffset) \cup (295..305) \cup {3600}

IatChoices(exp, t) ==
    {NoNum, 0, t, t - 15, t - 3540, exp - 300, exp - 301}

ParseInputs ==
    { [id |-> 1, kind |-> "jwt", exp |-> StartTime + d, iat |-> i] :
          d \in ExpOffsets, i \in IatChoices(StartTime + 45, StartTime) }
    \cup { [id |-> 1, kind |-> "jwt", exp |-> StartTime + d, iat |-> StartTime + d - 300] :
               d \in ExpOffsets }
    \cup { [id |-> 1, kind |-> "jwt", exp |-> NoNum, iat |-> StartTime],
           [id |-> 1, kind |-> "opaque", exp |-> NoNum, iat |-> NoNum],
           NoToken }

DelayInputs == ((0 - 10)..MaxDelayInput) \cup (86400..86520)

StoreIdle ==
    /\ now = StartTime
    /\ issued = 0
    /\ Constructed(NoToken)
    /\ ticks = 0
    /\ hook = NoHook

InitParse ==
    /\ StoreIdle
    /\ \E tok \in ParseInputs : fin = [token |-> tok, now |-> StartTime, done |-> FALSE]
    /\ fout = NullTokenData

ParseStep ==
    /\ ~fin.done
    /\ fin' = [fin EXCEPT !.done = TRUE]
    /\ fout' = parseToken(fin.token, fin.now)
    /\ UNCHANGED storeVars

SpecParse == InitParse /\ [][ParseStep]_vars

InitDelay ==
    /\ StoreIdle
    /\ \E t \in DelayInputs : fin = [timeUntilExpiry |-> t, done |-> FALSE]
    /\ fout = 0

DelayStep ==
    /\ ~fin.done
    /\ fin' = [fin EXCEPT !.done = TRUE]
    /\ fout' = getRefreshDelay(fin.timeUntilExpiry)
    /\ UNCHANGED storeVars

SpecDelay == InitDelay /\ [][DelayStep]_vars

----------------------------------------------------------------------------
(* Properties                                                              *)

\* The buffer the expiry policy gives a token at clock t: 30 s when its
\* lifetime (exp - iat, or exp - now without iat) is at most 300 s, else 60 s.
PolicyBuffer(tok, t) ==
    LET lifetime == tok.exp - (IF tok.iat = NoNum THEN t ELSE tok.iat)
    IN IF lifetime <= 300 THEN 30 ELSE 60

\* C1: every refreshToken() call issued while the remote call of an earlier
\* refreshToken() is unresolved shares that call's operation, which makes
\* exactly one refreshAccessTokenAction call, so all of them resolve alike.
C1_Coalescing ==
    ev.kind = "r" =>
        \A o \in InFlight :
            ops[o].by = "r" => (ev.op = o /\ ops[o].remote = <<"refresh">>)

\* C2: at most one remote refresh operation started by the store is in flight.
C2_SingleFlight == Cardinality(InFlight) <= 1

\* C3: a failed refresh leaves the snapshot token as it was, sets error to an
\* Error and loading to false.
C3_FailureKeepsToken ==
    [][ev'.kind = "reject" =>
          /\ state'.token = state.token
          /\ state'.error # NoError
          /\ state'.error.isError
          /\ ~state'.loading]_vars

C3_Witness ==
    /\ ev.kind = "reject"
    /\ state.token # NoToken
    /\ state.error.isError
    /\ ~state.loading

\* C4: a token getAccessToken() resolves with, when its expiry parses, is not
\* expiring at that moment (exp >= now + buffer).
C4_FreshToken ==
    LET resolved == \/ (ev.kind = "g" /\ ev.ret = "value")
                    \/ (ev.kind = "resolve" /\ ev.settled.by = "g")
    IN (resolved /\ ev.val.kind = "jwt" /\ ev.val.exp # NoNum)
          => ev.val.exp >= now + PolicyBuffer(ev.val, now)

\* C5: with no unconsumed bootstrap cookie and a cached token that is opaque
\* or a JWT not expiring, getAccessToken() and getAccessTokenSilently() resolve
\* with the cached token, make no remote call and leave the snapshot unchanged.
C5_CachedNoRemote ==
    [][(/\ ev'.kind \in {"g", "s"}
        /\ (fastCookieConsumed \/ cookie = NoToken)
        /\ state.token # NoToken
        /\ \/ state.token.kind = "opaque"
           \/ state.token.exp = NoNum
           \/ state.token.exp >= now + PolicyBuffer(state.token, now))
       => (/\ ev'.ret = "value"
           /\ ev'.val = state.token
           /\ ev'.started = <<>>
           /\ issued' = issued
           /\ ops' = ops
           /\ state' = state)]_vars

C5_Witness ==
    /\ ev.kind = "g"
    /\ ev.ret = "value"
    /\ ~ev.fast
    /\ state.token.kind = "opaque"
    /\ ev.val = state.token
    /\ cookie = NoToken

\* The cached token of the end-to-end scenario as the spec gives it, and one
\* second later.
ScenarioOriginal(tok, t) == tok.kind = "jwt" /\ tok.iat = t - 3540 /\ tok.exp = t + 60
ScenarioAmended(tok, t) == tok.kind = "jwt" /\ tok.iat = t - 3541 /\ tok.exp = t + 59

\* The getAccessToken() call just made started an operation of its own that
\* has issued exactly one remote call, a forced refresh.
CallStartedOneRefresh ==
    /\ ev.ret = "pending"
    /\ ev.started = <<"refresh">>
    /\ ev.op \in InFlight
    /\ ops[ev.op].remote = <<"refresh">>
    /\ ops[ev.op].prev = state.token

C7_AdaptiveBuffer ==
    (fin.done /\ fin.token.kind = "jwt" /\ fin.token.exp # NoNum)
        => /\ ~fout.isNull
           /\ fout.timeUntilExpiry = fin.token.exp - fin.now
           /\ fout.isExpiring
                 = (fin.token.exp < fin.now + PolicyBuffer(fin.token, fin.now))

\* C8: the delay is 0 when timeUntilExpiry <= 60 and otherwise
\* (timeUntilExpiry - 60) * 1000 clamped into [15000, 86400000]; so it is 0 or
\* within [15000, 86400000].
C8_RefreshDelay ==
    fin.done =>
        LET t == fin.timeUntilExpiry
            ideal == (t - 60) * 1000
        IN /\ fout = (IF t <= 60 THEN 0
                      ELSE IF ideal < 15000 THEN 15000
                      ELSE IF ideal > 86400000 THEN 86400000
                      ELSE ideal)
           /\ (fout = 0 \/ (15000 <= fout /\ fout <= 86400000))

C8_Witness == fin.done /\ fin.timeUntilExpiry = 61 /\ fout = 15000

\* C9: at most one renewal timer is pending, and it is the one the store's
\* handle names: every schedule cancels the timer it replaces.
C9_OneTimer ==
    /\ Cardinality(timers) <= 1
    /\ \A x \in timers : x.id = refreshTimeout

C9_Witness ==
    /\ ev.kind \in {"resolve", "reject"}
    /\ ev.cancelled = 1
    /\ Cardinality(timers) = 1

\* C10: the unsubscribe that empties the listener set cancels the pending
\* timer in the same step; an unsubscribe that leaves subscribers leaves the
\* timer as it was.
C10_LastUnsubscribe ==
    [][ev'.kind = "unsubscribe" =>
          IF listeners' = 0
          THEN timers' = {} /\ refreshTimeout' = 0
          ELSE timers' = timers /\ refreshTimeout' = refreshTimeout]_vars

C10_Witness ==
    /\ ev.kind = "unsubscribe"
    /\ listeners = 0
    /\ ev.cancelled = 1
    /\ timers = {}

\* C11: clearToken() sets the snapshot to {token: undefined, loading: false,
\* error: null}, leaves no renewal timer pending and runs one notification
\* round over the listener set as it stands (unsubscribed callbacks are no
\* longer in it).
C11_ClearToken ==
    [][ev'.kind = "clearToken" =>
          /\ state' = [token |-> NoToken, loading |-> FALSE, error |-> NoError]
          /\ timers' = {}
          /\ ev'.notifies = 1
          /\ listeners' = listeners]_vars

C11_Witness ==
    /\ ev.kind = "clearToken"
    /\ ev.cancelled = 1
    /\ ev.notifies = 1
    /\ listeners > 0
    /\ timers = {}
    /\ state.token = NoToken

\* C12: right after reset(), whatever the state it was called in,
\* isRefreshing() is false, the snapshot is empty, no timer is pending and the
\* listener set is empty, so no callback registered before receives a later
\* notification.
C12_ResetIsolation ==
    [][ev'.kind = "reset" =>
          /\ refreshPromise' = 0
          /\ state' = [token |-> NoToken, loading |-> FALSE, error |-> NoError]
          /\ timers' = {}
          /\ listeners' = 0]_vars

C12_Witness ==
    /\ ev.kind = "reset"
    /\ InFlight # {}
    /\ ev.cancelled = 1
    /\ ~isRefreshing
    /\ listeners = 0
    /\ timers = {}

\* C13: a store constructed with the bootstrap cookie present starts with the
\* cookie's value as its token and the cookie deleted; and every first read of
\* the jar by getAccessToken()/getAccessTokenSilently() that finds a value
\* deletes it in the same step, also when the value equals the cached token.
C13_BootstrapConsumption ==
    /\ (ev.kind = "construct" /\ ev.val # NoToken)
          => (state.token = ev.val /\ cookie = NoToken)
    /\ [][(ev'.kind \in {"g", "s", "t"} /\ ~fastCookieConsumed /\ cookie # NoToken)
             => (cookie' = NoToken /\ fastCookieConsumed')]_vars

C13_Witness ==
    /\ ev.kind \in {"g", "s"}
    /\ ev.fast
    /\ ev.val # NoToken
    /\ state.token = ev.val
    /\ fastCookieConsumed
    /\ cookie = NoToken

\* C14: over the life of one store instance a token read from the bootstrap
\* cookie is adopted into the snapshot at most once.
C14_FastPathOnce == adopted <= 1

\* C16: when clearToken() runs while a refresh is in flight, the token that
\* refresh's remote call (issued before the clear) comes back with is not
\* written into the snapshot.
C16_StaleTokenNotWritten ==
    [][(/\ ev.kind = "clearToken"
        /\ ev'.kind \in {"resolve", "stage"}
        /\ ev'.val # NoToken)
       => state'.token # ev'.val]_vars

C20_FailurePropagates ==
    ev.kind = "reject" =>
        /\ ev.ret = "rejected"
        /\ ev.reason \in Reasons
        /\ state.error.isError
        /\ state.error.msg = ev.reason.msg
        /\ ~state.loading

C20_Witness ==
    /\ ev.kind = "reject"
    /\ ev.settled.by = "r"
    /\ ev.ret = "rejected"
    /\ ~ev.reason.isError
    /\ state.error.isError
    /\ state.error.msg = ev.reason.msg
    /\ ~state.loading

\* C15: when a mounted hook whose refs hold a defined session id (or user id)
\* sees a different one while the store holds token X, its effect calls
\* clearToken() before getAccessTokenSilently(): after the effect the snapshot
\* no longer holds X, and the silent call found no cached token (it waits on a
\* remote fetch, or adopted a bootstrap cookie).
C15_IdentityChange ==
    [][(/\ ev'.kind = "e"
        /\ hook.mounted
        /\ hook'.user # 0
        /\ \/ (hook.session # 0 /\ hook.session # hook'.session)
           \/ (hook.user # 0 /\ hook.user # hook'.user)
        /\ state.token # NoToken)
       => /\ hook'.cleared
          /\ state'.token # state.token
          /\ \/ (state'.token = NoToken /\ ev'.ret = "pending")
             \/ ev'.fast]_vars

C15_Witness ==
    /\ ev.kind = "e"
    /\ hook.mounted
    /\ hook.user # 0
    /\ hook.cleared
    /\ state.token = NoToken
    /\ ev.ret = "pending"
    /\ ev.started # <<>>

C18_LoggedOutQuiet ==
    (hook.mounted /\ hook.user = 0 /\ hook.cleared)
        => /\ timers = {}
           /\ ev.started = <<>>
           /\ ~isInitialTokenLoading

\* The token's expiry parses: a JWT with a numeric exp.
Parseable(tok) == tok.kind = "jwt" /\ tok.exp # NoNum

\* Timer x carries the delay the renewal policy derives from tok's
\* timeUntilExpiry at the instant the timer was armed.
ArmedFrom(x, tok) ==
    LET armedAt == x.due - (x.delay \div 1000)
        t == tok.exp - armedAt
        ideal == (t - 60) * 1000
    IN x.delay = (IF t <= 60 THEN 0
                  ELSE IF ideal < 15000 THEN 15000
                  ELSE IF ideal > 86400000 THEN 86400000
                  ELSE ideal)

\* C21: the snapshot token is only ever replaced by a token the server
\* numbered later, or cleared; never by one issued earlier.
C21_TokenMonotonic ==
    [][(state'.token # state.token /\ state.token # NoToken
            /\ state'.token # NoToken)
       => state'.token.id > state.token.id]_vars

\* C22: when the renewal timer armed from the cached token's timeUntilExpiry
\* fires with that token still cached, the store starts a silent remote
\* refresh or attaches to the one in flight.
C22_ProactiveRenewal ==
    [][(/\ ev'.kind = "t"
        /\ Parseable(state.token)
        /\ cookie = NoToken
        /\ \E x \in timers \ timers' :
              x.id = refreshTimeout /\ ArmedFrom(x, state.token))
       => (ev'.ret = "pending" /\ (ev'.started # <<>> \/ ev'.attached))]_vars

\* C23: a getAccessTokenSilently() that resolves with a parseable token
\* leaves a renewal timer pending that was armed from that token's
\* timeUntilExpiry, whether the token came from the bootstrap cookie, the
\* cache or a remote refresh.
C23_SilentLeavesTimer ==
    LET resolved == \/ (ev.kind \in {"s", "t"} /\ ev.ret = "value")
                    \/ (ev.kind = "resolve" /\ ev.settled.by = "s")
    IN (resolved /\ Parseable(ev.val))
          => \E x \in timers : x.id = refreshTimeout /\ ArmedFrom(x, ev.val)

\* C24 (its safety part): when the retry timer armed by a failed refresh fires
\* with the error still recorded, token T still cached and a subscriber
\* present, the renewal schedule goes on: a refresh is started or joined, or
\* a timer is pending afterwards.
C24_SelfHealing ==
    [][(/\ ev'.kind = "t"
        /\ state.error.isError
        /\ state.token # NoToken
        /\ state'.token = state.token
        /\ listeners > 0
        /\ \E x \in timers \ timers' : x.id = refreshTimeout /\ x.delay = 300000)
       => (ev'.ret = "pending" \/ timers' # {})]_vars

\* C25: when a successful refresh yields an opaque token, the store arms the
\* renewal timer with the fixed 300000 ms delay.
C25_OpaquePolling ==
    (ev.kind = "resolve" /\ ev.val.kind = "opaque")
        => \E x \in timers :
              x.id = refreshTimeout /\ x.delay = 300000 /\ x.due = now + 300

-----------------------------------------------------------------------------
(* The background renewal loop on its own: timers, clock and remote calls  *)

\* Bootstrap tokens of the loop: seconds to live at construction, for a
\* long-lived token (buffer 60) and a short-lived one (buffer 30).
LoopExpOffsets == {10, 29, 45, 59, 60, 61, 75, 120, 3600}

LoopLifetimes == {120, 3600}

LoopTokens ==
    { [id |-> 0, kind |-> "jwt", exp |-> StartTime + e, iat |-> StartTime + e - l] :
        e \in LoopExpOffsets, l \in LoopLifetimes }

\* A page constructed with a bootstrap cookie; no caller ever touches the
\* store, so every remote call is started by the renewal timer.
InitLoop ==
    /\ now = StartTime
    /\ issued = 0
    /\ \E ck \in LoopTokens : Constructed(ck)
    /\ ticks = 0
    /\ hook = NoHook
    /\ fin = 0
    /\ fout = 0

NextLoop ==
    \/ TimerFire
    \/ RemoteResolve
    \/ RemoteReject
    \/ Tick
    \/ AdvanceToTimer

SpecLoop == InitLoop /\ [][NextLoop]_vars

\* C26: two consecutive timer-initiated remote refresh calls are at least
\* 15000 ms apart. In the loop every call is timer-initiated and none is made
\* before StartTime, so the second and later calls (request number 2 and up)
\* come no sooner than 15 s after StartTime.
C26_NoRefreshStorm ==
    (ev.kind = "t" /\ ev.started # <<>> /\ ev.op >= 2)
        => now >= StartTime + 15

\* C27: a refreshToken() that starts a new operation sets loading to true
\* with error null and notifies before the remote call goes out; when a
\* non-silent operation settles, loading is false; a step of a silent path
\* (getAccessToken, getAccessTokenSilently, the timer, or a silent body
\* continuing or settling) never turns loading on.
C27_LoadingFlag ==
    [][/\ (ev'.kind = "r" /\ ~ev'.attached)
             => /\ state'.loading
                /\ state'.error = NoError
                /\ ev'.notifies = 1
                /\ ev'.started = <<"refresh">>
       /\ (ev'.kind \in {"resolve", "reject"} /\ ~ev'.settled.silent)
             => ~state'.loading
       /\ (\/ ev'.kind \in {"g", "s", "t", "e", "w"}
           \/ (ev'.kind \in {"resolve", "reject"} /\ ev'.settled.silent)
           \/ (ev'.kind = "stage"))
             => (state'.loading => state.loading)]_vars

C27_Witness ==
    /\ ev.kind = "r"
    /\ ~ev.attached
    /\ ev.started = <<"refresh">>
    /\ state.loading
    /\ state.error = NoError
    /\ listeners > 0

\* C28: isRefreshing() is true exactly while an operation is in flight: false
\* before one starts, true from its start until it settles, false afterwards.
C28_HandleLifetime == isRefreshing = (InFlight # {})

\* C29: the operation a refreshToken() call resolves with, whether the call
\* started it or joined it in flight, settles with the outcome of a forced
\* refreshAccessTokenAction, never with a value that came from
\* getAccessTokenAction alone.
C29_ForcedRoundTrip ==
    [][(/\ ev.kind = "r"
        /\ ev.ret = "pending"
        /\ ev'.kind = "resolve"
        /\ ev'.op = ev.op)
       => Last(ev'.settled.remote) = "refresh"]_vars

\* The claim's reading of "expiring" at clock t.
Expiring(tok, t) == Parseable(tok) /\ tok.exp < t + PolicyBuffer(tok, t)

\* C30: a non-silent body, and a silent body started with a cached token,
\* call refreshAccessTokenAction and nothing else; a silent body started
\* without a cached token calls getAccessTokenAction first, publishes the
\* token it gets, and calls refreshAccessTokenAction afterwards only when
\* that token is absent or expiring, keeping the first token when the forced
\* refresh returns nothing.
C30_RemoteOrder ==
    /\ (ev.started # <<>> /\ ev.kind # "stage") =>
          LET op == ops[ev.op] IN
          /\ op.remote = ev.started
          /\ ev.started = <<IF ~op.silent \/ op.prev # NoToken
                            THEN "refresh" ELSE "get">>
    /\ ev.kind = "stage" =>
          LET op == ops[ev.op] IN
          /\ op.silent
          /\ op.prev = NoToken
          /\ op.remote = <<"get", "refresh">>
          /\ op.tok = ev.val
          /\ (ev.val = NoToken \/ Expiring(ev.val, now))
          /\ (ev.val # NoToken => state.token = ev.val)
    /\ ev.kind = "resolve" =>
          LET op == ev.settled IN
          IF ~op.silent \/ op.prev # NoToken
          THEN op.remote = <<"refresh">>
          ELSE \/ /\ op.remote = <<"get">>
                  /\ ev.val # NoToken
                  /\ ~Expiring(ev.val, now)
                  /\ state.token = ev.val
               \/ /\ op.remote = <<"get", "refresh">>
                  /\ (ev.val = op.tok
                         \/ (ev.val # NoToken /\ ev.val.id = op.ticket))
                  /\ (op.tok # NoToken => ev.val # NoToken)

C30_Witness ==
    /\ ev.kind = "resolve"
    /\ ev.settled.silent
    /\ ev.settled.remote = <<"get", "refresh">>
    /\ ev.settled.tok # NoToken
    /\ ev.val = ev.settled.tok
    /\ state.token = ev.val

\* C31: parseToken returns null, and nothing else, for every token that is
\* absent, is not a decodable three-part JWT, or whose payload has no numeric
\* exp.
C31_ParseNeverThrows ==
    (fin.done /\ ~Parseable(fin.token)) => fout = NullTokenData

C31_Witness ==
    /\ fin.done
    /\ fin.token.kind = "jwt"
    /\ fin.token.exp = NoNum
    /\ fout.isNull

\* C32: whenever the store has a subscriber, holds a parseable token and has
\* no refresh in flight, a renewal timer is pending.
C32_RenewalCoverage ==
    (listeners > 0 /\ Parseable(state.token) /\ InFlight = {} /\ ~isRefreshing)
        => timers # {}

\* C33: once the last listener has unsubscribed, no renewal timer becomes
\* pending while the listener set stays empty, also not when a refresh that
\* was in flight at the last unsubscribe settles.
C33_NoOrphanedTimer ==
    [][(/\ ev.kind = "unsubscribe"
        /\ listeners = 0
        /\ listeners' = 0
        /\ ev'.kind \in {"resolve", "reject", "stage"})
       => timers' = {}]_vars

\* C34: a refresh that was in flight when reset() was called changes, when it
\* settles, neither the snapshot, nor the timer, nor the in-flight handle of a
\* later refresh.
C34_ResetQuiescence ==
    [][/\ (ev.kind = "reset" /\ ev'.kind \in {"resolve", "reject", "stage"})
          => (state' = EmptyState /\ timers' = {})
       /\ (/\ ev'.kind \in {"resolve", "reject"}
           /\ isRefreshing
           /\ refreshPromise # ev'.op)
          => refreshPromise' = refreshPromise]_vars

\* C36 as stated: every change of the snapshot made while listeners are
\* subscribed notifies them in the same step, by whichever operation; without
\* listeners, only reset() changes the snapshot without a notify() call.
C36_Original ==
    [][/\ (state' # state /\ listeners > 0) => ev'.notifies >= 1
       /\ (ev'.notifies = 0 /\ listeners = 0 /\ ev'.kind # "reset")
             => (getSnapshot' = getSnapshot)]_vars

\* C36, amended: every snapshot change made by an operation other than reset()
\* notifies the subscribed listeners in the same step, and without a
\* notification the snapshot is unchanged; reset() replaces the snapshot by
\* the empty one without notifying and drops every listener;
\* getServerSnapshot() is the constant empty snapshot throughout.
C36_NotifyOnChange ==
    [][/\ (state' # state /\ listeners > 0 /\ ev'.kind # "reset")
             => ev'.notifies >= 1
       /\ (ev'.notifies = 0 /\ ev'.kind # "reset")
             => (getSnapshot' = getSnapshot)
       /\ (ev'.kind = "reset")
             => (state' = EmptyState /\ listeners' = 0 /\ ev'.notifies = 0)
       /\ getServerSnapshot
             = [token |-> NoToken, loading |-> FALSE, error |-> NoError]]_vars

C36_Witness ==
    /\ ev.kind = "resolve"
    /\ ev.notifies = 1
    /\ listeners = MaxListeners
    /\ state.token = ev.val
    /\ ev.val # ev.settled.prev

\* C37: while the mounted hook's identity reports no user, the accessToken it
\* returns (the snapshot's token) is undefined.
C37_NoUserNoToken ==
    (hook.mounted /\ hook.user = 0) => getSnapshot.token = NoToken

-----------------------------------------------------------------------------
(* Progress: every remote call settles                                     *)

\* The store under its callers, timers and remote calls, without the
\* subscription and cookie traffic.
NextLive ==
    \/ GetAccessToken
    \/ GetAccessTokenSilently
    \/ RefreshToken
    \/ TimerFire
    \/ RemoteResolve
    \/ RemoteReject
    \/ ClearToken
    \/ Reset
    \/ AdvanceToTimer

\* A remote call that is outstanding is eventually answered or fails.
RemoteSettles == WF_vars(RemoteResolve \/ RemoteReject)

SpecLive == Init /\ [][NextLive]_vars /\ RemoteSettles

\* The hook with its identity changes, callbacks and wake events, on a page
\* whose clock and cookie jar stand still.
NextHookLive ==
    \/ HookMount
    \/ HookIdentity
    \/ HookWake
    \/ HookGetAccessToken
    \/ HookRefresh
    \/ HookUnmount
    \/ TimerFire
    \/ RemoteResolve
    \/ RemoteReject

SpecHookLive == Init /\ [][NextHookLive]_vars /\ RemoteSettles

\* C35: snapshot.loading is true only while an operation started by the store
\* is outstanding, and, remote calls settling, whenever loading is true it
\* becomes false again.
C35_LoadingOutstanding ==
    /\ [](state.loading => InFlight # {})
    /\ state.loading ~> ~state.loading

C35_Witness ==
    /\ ev.kind = "reject"
    /\ ~ev.settled.silent
    /\ ~state.loading
    /\ InFlight = {}

\* The loading value the hook returns.
hookLoading == isInitialTokenLoading \/ state.loading

C39_PromisesSettle ==
    /\ [](ev.ret = "pending" => ev.op \in InFlight)
    /\ \A o \in 1..MaxTokens : (o \in InFlight) ~> (o \notin InFlight)

C39_Witness ==
    /\ ev.kind \in {"g", "s", "r"}
    /\ ev.attached
    /\ ev.ret = "pending"
    /\ ev.op \in InFlight

====
